---------------------------- MODULE Spec2Model ----------------------------
(***************************************************************************)
(* A model of sec, a local encrypted secret vault (sec.go, store.go).      *)
(*                                                                         *)
(* A Go string and a []byte are sequences of byte values 0..255.  A byte   *)
(* of the vault file is a record: the file is the nonce followed by the    *)
(* output of XChaCha20-Poly1305, and the cipher is modelled symbolically   *)
(* (a ciphertext byte names the plaintext byte, key, nonce and position    *)
(* it was made from; a tag byte names the key, the nonce and the whole     *)
(* plaintext), so that two sealed outputs are equal exactly when their     *)
(* inputs are.                                                             *)
(*                                                                         *)
(* The commands are those of both revisions of sec.go: the root command    *)
(* with PersistentPreRunE, requirePIN with three attempts, set, get,       *)
(* delete and list of the later one, and set-pin, change-pin and           *)
(* remove-pin of the earlier one, run under that root command.             *)
(***************************************************************************)
EXTENDS Integers, Sequences, FiniteSets, TLC

(***************************************************************************)
(* Program constants                                                       *)
(***************************************************************************)
KeySize == 32
NonceSizeX == 24
Overhead == 16
maxAttempts == 3

\* "__meta__pin_hash"
pinKey == <<95, 95, 109, 101, 116, 97, 95, 95, 112, 105, 110, 95, 104, 97, 115, 104>>

(***************************************************************************)
(* Byte strings                                                            *)
(***************************************************************************)
Range(s) == {s[i] : i \in 1..Len(s)}

Take(s, n) == SubSeq(s, 1, n)

Drop(s, n) == SubSeq(s, n + 1, Len(s))

\* A function on 1..n as a sequence (for TLC, which then holds it as a
\* tuple of values).
AsSeq(f) == <<>> \o f

\* Go's < on strings: bytewise lexicographic order.
RECURSIVE LessStr(_, _)
LessStr(a, b) ==
    IF b = <<>> THEN FALSE
    ELSE IF a = <<>> THEN TRUE
    ELSE IF Head(a) # Head(b) THEN Head(a) < Head(b)
    ELSE LessStr(Tail(a), Tail(b))

\* The keys of a map in increasing order, as json.Marshal writes them.
RECURSIVE SortedKeys(_)
SortedKeys(S) ==
    IF S = {} THEN <<>>
    ELSE LET m == CHOOSE x \in S : \A y \in S \ {x} : LessStr(x, y)
         IN  <<m>> \o SortedKeys(S \ {m})

\* SecretStore: a map from string to string.
EmptyStore == [n \in {} |-> <<>>]

StorePut(store, name, value) ==
    [n \in DOMAIN store \cup {name} |-> IF n = name THEN value ELSE store[n]]

\* Mutant: delete empties the map.
StoreDelete_Clear(store, name) == EmptyStore

StoreDelete(store, name) == [n \in DOMAIN store \ {name} |-> store[n]]

\* store[name] of Go: the zero value "" when the key is missing.
StoreGet(store, name) == IF name \in DOMAIN store THEN store[name] ELSE <<>>

(***************************************************************************)
(* UTF-8 (unicode/utf8), as encoding/json uses it                          *)
(***************************************************************************)
IsCont(s, i) == i <= Len(s) /\ s[i] >= 128 /\ s[i] <= 191

InRange(s, i, lo, hi) == i <= Len(s) /\ s[i] >= lo /\ s[i] <= hi

\* utf8.DecodeRuneInString at s[i]: the size of a valid encoding, 0 when the
\* byte does not start one (Go then yields RuneError with size 1).
RuneSize(s, i) ==
    LET b == s[i] IN
    IF b < 128 THEN 1
    ELSE IF b >= 194 /\ b <= 223 THEN (IF IsCont(s, i + 1) THEN 2 ELSE 0)
    ELSE IF b >= 224 /\ b <= 239 THEN
        LET lo == IF b = 224 THEN 160 ELSE 128
            hi == IF b = 237 THEN 159 ELSE 191
        IN  IF InRange(s, i + 1, lo, hi) /\ IsCont(s, i + 2) THEN 3 ELSE 0
    ELSE IF b >= 240 /\ b <= 244 THEN
        LET lo == IF b = 240 THEN 144 ELSE 128
            hi == IF b = 244 THEN 143 ELSE 191
        IN  IF InRange(s, i + 1, lo, hi) /\ IsCont(s, i + 2) /\ IsCont(s, i + 3)
            THEN 4 ELSE 0
    ELSE 0

\* utf8.AppendRune: the UTF-8 encoding of rune r (a surrogate or a value out
\* of range becomes U+FFFD).
RuneError == <<239, 191, 189>>

EncodeRune(r) ==
    IF r < 0 \/ r > 1114111 \/ (r >= 55296 /\ r <= 57343) THEN RuneError
    ELSE IF r < 128 THEN <<r>>
    ELSE IF r < 2048 THEN <<192 + (r \div 64), 128 + (r % 64)>>
    ELSE IF r < 65536 THEN
        <<224 + (r \div 4096), 128 + ((r \div 64) % 64), 128 + (r % 64)>>
    ELSE <<240 + (r \div 262144), 128 + ((r \div 4096) % 64),
           128 + ((r \div 64) % 64), 128 + (r % 64)>>

(***************************************************************************)
(* json.Marshal of a map[string]string                                     *)
(***************************************************************************)
HexDigit(d) == IF d < 10 THEN 48 + d ELSE 87 + d

\* \u00XX
EscapeU00(b) == <<92, 117, 48, 48, HexDigit(b \div 16), HexDigit(b % 16)>>

\* One byte below utf8.RuneSelf, as appendString writes it (escapeHTML on).
EscapeASCII(b) ==
    IF b = 34 \/ b = 92 THEN <<92, b>>
    ELSE IF b = 10 THEN <<92, 110>>
    ELSE IF b = 13 THEN <<92, 114>>
    ELSE IF b = 9 THEN <<92, 116>>
    ELSE IF b < 32 \/ b = 60 \/ b = 62 \/ b = 38 THEN EscapeU00(b)
    ELSE <<b>>

\* The string body from s[i]: an invalid byte is written as the six
\* characters backslash-u-f-f-f-d, U+2028 and U+2029 as their backslash-u
\* escapes, every other rune as its own bytes.
RECURSIVE AppendStringFrom(_, _)
AppendStringFrom(s, i) ==
    IF i > Len(s) THEN <<>>
    ELSE IF s[i] < 128 THEN EscapeASCII(s[i]) \o AppendStringFrom(s, i + 1)
    ELSE LET n == RuneSize(s, i) IN
         IF n = 0 THEN <<92, 117, 102, 102, 102, 100>> \o AppendStringFrom(s, i + 1)
         ELSE IF n = 3 /\ s[i] = 226 /\ s[i + 1] = 128 /\ s[i + 2] \in {168, 169}
              THEN <<92, 117, 50, 48, 50, HexDigit(s[i + 2] - 160)>>
                   \o AppendStringFrom(s, i + 3)
         ELSE SubSeq(s, i, i + n - 1) \o AppendStringFrom(s, i + n)

appendString(s) == <<34>> \o AppendStringFrom(s, 1) \o <<34>>

RECURSIVE MarshalMembers(_, _)
MarshalMembers(store, keys) ==
    IF keys = <<>> THEN <<>>
    ELSE appendString(Head(keys)) \o <<58>> \o appendString(store[Head(keys)])
         \o (IF Len(keys) > 1 THEN <<44>> ELSE <<>>)
         \o MarshalMembers(store, Tail(keys))

\* {"k":"v",...} with the keys sorted.
Marshal(store) == <<123>> \o MarshalMembers(store, SortedKeys(DOMAIN store)) \o <<125>>

(***************************************************************************)
(* json.Unmarshal into a map[string]string.  The input grammar is the one  *)
(* Marshal writes (no white space between tokens); any other input is a    *)
(* syntax or type error.                                                   *)
(***************************************************************************)
HexVal(c) ==
    IF c >= 48 /\ c <= 57 THEN c - 48
    ELSE IF c >= 97 /\ c <= 102 THEN c - 87
    ELSE IF c >= 65 /\ c <= 70 THEN c - 55
    ELSE -1

\* The four hex digits at s[i..i+3] as a number, -1 when they are not four.
Hex4(s, i) ==
    IF i + 3 > Len(s) \/ \E j \in i..(i + 3) : HexVal(s[j]) < 0 THEN -1
    ELSE 4096 * HexVal(s[i]) + 256 * HexVal(s[i + 1])
         + 16 * HexVal(s[i + 2]) + HexVal(s[i + 3])

IsHighSurrogate(r) == r >= 55296 /\ r <= 56319

IsLowSurrogate(r) == r >= 56320 /\ r <= 57343

ParseFail == [ok |-> FALSE, val |-> <<>>, pos |-> 0]

\* The escape letter after a backslash, -1 when there is no such escape.
Unescape(e) ==
    IF e \in {34, 92, 47} THEN e
    ELSE IF e = 98 THEN 8
    ELSE IF e = 102 THEN 12
    ELSE IF e = 110 THEN 10
    ELSE IF e = 114 THEN 13
    ELSE IF e = 116 THEN 9
    ELSE -1

\* A string literal from just after its opening quote: the unquoted bytes
\* and the position after the closing quote.
RECURSIVE ParseStringBody(_, _, _)
ParseStringBody(s, i, acc) ==
    IF i > Len(s) THEN ParseFail
    ELSE IF s[i] = 34 THEN [ok |-> TRUE, val |-> acc, pos |-> i + 1]
    ELSE IF s[i] = 92 THEN
        IF i + 1 > Len(s) THEN ParseFail
        ELSE IF s[i + 1] = 117 THEN
            LET r == Hex4(s, i + 2)
                r2 == IF i + 7 <= Len(s) /\ s[i + 6] = 92 /\ s[i + 7] = 117
                      THEN Hex4(s, i + 8) ELSE -1
            IN  IF r < 0 THEN ParseFail
                ELSE IF IsHighSurrogate(r) /\ IsLowSurrogate(r2)
                THEN ParseStringBody(s, i + 12,
                        acc \o EncodeRune(65536 + (r - 55296) * 1024 + (r2 - 56320)))
                ELSE ParseStringBody(s, i + 6, acc \o EncodeRune(r))
        ELSE IF Unescape(s[i + 1]) < 0 THEN ParseFail
        ELSE ParseStringBody(s, i + 2, acc \o <<Unescape(s[i + 1])>>)
    ELSE IF s[i] < 32 THEN ParseFail
    ELSE IF s[i] < 128 THEN ParseStringBody(s, i + 1, acc \o <<s[i]>>)
    ELSE LET n == RuneSize(s, i) IN
         IF n = 0 THEN ParseStringBody(s, i + 1, acc \o RuneError)
         ELSE ParseStringBody(s, i + n, acc \o SubSeq(s, i, i + n - 1))

\* The members of an object from the opening quote of a key at s[i]; a key
\* met twice keeps its last value.
RECURSIVE ParseMembers(_, _, _)
ParseMembers(s, i, m) ==
    IF i > Len(s) \/ s[i] # 34 THEN ParseFail
    ELSE LET k == ParseStringBody(s, i + 1, <<>>) IN
    IF ~k.ok \/ k.pos + 1 > Len(s) \/ s[k.pos] # 58 \/ s[k.pos + 1] # 34 THEN ParseFail
    ELSE LET v == ParseStringBody(s, k.pos + 2, <<>>) IN
    IF ~v.ok \/ v.pos > Len(s) THEN ParseFail
    ELSE IF s[v.pos] = 44 THEN ParseMembers(s, v.pos + 1, StorePut(m, k.val, v.val))
    ELSE IF s[v.pos] = 125 /\ v.pos = Len(s)
         THEN [ok |-> TRUE, val |-> StorePut(m, k.val, v.val), pos |-> v.pos + 1]
    ELSE ParseFail

\* [ok, val]: val is the map when ok.  "null" leaves the nil map.
Unmarshal(s) ==
    IF s = <<110, 117, 108, 108>> \/ s = <<123, 125>>
    THEN [ok |-> TRUE, val |-> EmptyStore]
    ELSE IF Len(s) < 2 \/ s[1] # 123 THEN [ok |-> FALSE, val |-> EmptyStore]
    ELSE LET r == ParseMembers(s, 2, EmptyStore)
         IN  [ok |-> r.ok, val |-> IF r.ok THEN r.val ELSE EmptyStore]

(***************************************************************************)
(* XChaCha20-Poly1305 (chacha20poly1305.NewX), symbolically.               *)
(*   [b |-> v]                      a byte whose value v is known          *)
(*   [x |-> p, k |-> K, n |-> N, i |-> i]                                  *)
(*                                  p XOR byte i of the key stream of K, N *)
(*   [g |-> c, k |-> K, n |-> N, i |-> i]                                  *)
(*                                  c XOR byte i of the key stream of K, N *)
(*                                  when c was not made with that stream   *)
(*   [m |-> j, k |-> K, n |-> N, d |-> P]                                  *)
(*                                  byte j of the Poly1305 tag under K, N  *)
(*                                  of the ciphertext whose plaintext is P *)
(***************************************************************************)
PlainByte(v) == [b |-> v]

PlainBytes(s) == AsSeq([i \in 1..Len(s) |-> PlainByte(s[i])])

IsPlain(c) == "b" \in DOMAIN c

\* The value of a byte; -1 for a byte whose value is not known.
ByteVal(c) == IF IsPlain(c) THEN c.b ELSE -1

XorKeyStream(c, K, N, i) ==
    IF IsPlain(c) THEN [x |-> c.b, k |-> K, n |-> N, i |-> i]
    ELSE IF "x" \in DOMAIN c /\ c.k = K /\ c.n = N /\ c.i = i THEN PlainByte(c.x)
    ELSE [g |-> c, k |-> K, n |-> N, i |-> i]

XorAll(s, K, N) == AsSeq([i \in 1..Len(s) |-> XorKeyStream(s[i], K, N, i)])

\* The tag of ciphertext ct, whose plaintext under K, N is plaintext.
PolyTag(K, N, plaintext) ==
    AsSeq([j \in 1..Overhead |-> [m |-> j, k |-> K, n |-> N, d |-> plaintext]])

\* aead.Seal(dst, nonce, plaintext, nil): dst, the ciphertext, the tag.
AeadSeal(dst, K, N, plaintext) ==
    LET bytes == PlainBytes(plaintext)
    IN  dst \o XorAll(bytes, K, N) \o PolyTag(K, N, bytes)

\* Mutant: the tag is not compared.
AeadOpen_NoVerify(K, N, sealed) ==
    IF Len(sealed) < Overhead THEN [ok |-> FALSE, plaintext |-> <<>>]
    ELSE LET bytes == XorAll(Take(sealed, Len(sealed) - Overhead), K, N)
         IN  [ok |-> TRUE, plaintext |-> AsSeq([i \in 1..Len(bytes) |-> ByteVal(bytes[i])])]

\* aead.Open(nil, nonce, ciphertext, nil): [ok, plaintext]; the plaintext is
\* released only when the tag verifies.
AeadOpen(K, N, sealed) ==
    IF Len(sealed) < Overhead THEN [ok |-> FALSE, plaintext |-> <<>>]
    ELSE LET ct  == Take(sealed, Len(sealed) - Overhead)
             tag == Drop(sealed, Len(sealed) - Overhead)
             bytes == XorAll(ct, K, N)
         IN  IF tag = PolyTag(K, N, bytes)
             THEN [ok |-> TRUE, plaintext |-> AsSeq([i \in 1..Len(bytes) |-> ByteVal(bytes[i])])]
             ELSE [ok |-> FALSE, plaintext |-> <<>>]

(***************************************************************************)
(* encryptStore, decryptStore                                              *)
(***************************************************************************)
\* The random nonce is the parameter nonce: NonceSizeX bytes.
encryptStore(store, key, nonce) == AeadSeal(nonce, key, nonce, Marshal(store))

Failed(kind) == [err |-> kind, store |-> EmptyStore]

\* Mutant: the error of aead.Open is not looked at.
decryptStore_NoAuth(data, key) ==
    IF Len(data) < NonceSizeX + Overhead THEN Failed("FormatError")
    ELSE LET nonce  == Take(data, NonceSizeX)
             bytes  == XorAll(SubSeq(data, NonceSizeX + 1, Len(data) - Overhead), key, nonce)
             parsed == Unmarshal(AsSeq([i \in 1..Len(bytes) |-> ByteVal(bytes[i])]))
         IN  IF ~parsed.ok THEN Failed("FormatError")
             ELSE [err |-> "", store |-> parsed.val]

\* Mutant: the length of data is not looked at.
decryptStore_NoLengthCheck(data, key) ==
    LET nonce  == Take(data, NonceSizeX)
        opened == AeadOpen(key, nonce, Drop(data, NonceSizeX))
    IN  IF ~opened.ok THEN Failed("AuthenticationError")
        ELSE IF ~Unmarshal(opened.plaintext).ok THEN Failed("FormatError")
        ELSE [err |-> "", store |-> Unmarshal(opened.plaintext).val]

\* [err, store]: err is "" on success, else the kind of the error returned:
\* "FormatError" for "invalid ciphertext: too short" and for the error of
\* json.Unmarshal, "AuthenticationError" for the error of aead.Open.
decryptStore(data, key) ==
    IF Len(key) # KeySize THEN Failed("ConfigurationError")
    ELSE IF Len(data) < NonceSizeX THEN Failed("FormatError")
    ELSE LET nonce      == Take(data, NonceSizeX)
             ciphertext == Drop(data, NonceSizeX)
             opened     == AeadOpen(key, nonce, ciphertext)
         IN  IF ~opened.ok THEN Failed("AuthenticationError")
             ELSE LET parsed == Unmarshal(opened.plaintext)
                  IN  IF ~parsed.ok THEN Failed("FormatError")
                      ELSE [err |-> "", store |-> parsed.val]

(***************************************************************************)
(* bcrypt: the hash string of a PIN under a salt is "$" salt "$" digest;   *)
(* the digest is modelled by the PIN itself (two hashes are equal exactly  *)
(* when salt and PIN are).                                                 *)
(***************************************************************************)
GenerateFromPassword(pin, salt) == <<36>> \o salt \o <<36>> \o pin

\* bcrypt.CompareHashAndPassword(hash, pin) == nil
CompareHashAndPassword(hash, pin) ==
    \E j \in 2..Len(hash) :
        /\ hash[1] = 36 /\ hash[j] = 36
        /\ \A l \in 2..(j - 1) : hash[l] # 36
        /\ hash = GenerateFromPassword(pin, SubSeq(hash, 2, j - 1))

(***************************************************************************)
(* Bounds and input sets                                                   *)
(***************************************************************************)
\* How many different values crypto/rand produces for a nonce.
NumNonces == 2

\* Up to how many invocations that were locked out are counted.
MaxLockouts == 1

Nonces == {PlainBytes(AsSeq([i \in 1..NonceSizeX |-> r])) : r \in 1..NumNonces}

\* The keys crypto/rand may produce; the two differ in one byte.
KeyA == AsSeq([i \in 1..KeySize |-> 7])

KeyB == AsSeq([i \in 1..KeySize |-> IF i = KeySize THEN 8 ELSE 7])

Keys == {KeyA, KeyB}

\* Key files of the wrong length: 31 and 33 bytes.
BadKeys == {AsSeq([i \in 1..(KeySize - 1) |-> 7]), AsSeq([i \in 1..(KeySize + 1) |-> 7])}

\* Names and values given on the command line: "a", the byte 0xFF (not
\* valid UTF-8), the reserved name; "x", the byte 0xFF, the empty string.
Names == {<<97>>, pinKey}

Values == {<<120>>, <<255>>, <<>>}

\* PINs typed at the prompt ("1", "2") and the salts bcrypt draws.
Pins == {<<49>>, <<50>>}

Salts == {<<115>>}

Commands ==
    [op : {"set"}, name : Names \ {pinKey}, value : Values]
    \cup [op : {"set"}, name : {pinKey}, value : {<<120>>}]
    \cup [op : {"get", "delete"}, name : Names, value : {<<>>}]
    \cup [op : {"list", "set-pin", "change-pin", "remove-pin"}, name : {<<>>}, value : {<<>>}]

NoCommand == [op |-> "", name |-> <<>>, value |-> <<>>]

\* Invocations of the program that may run at the same time.
Procs == {1, 2}

(***************************************************************************)
(* State                                                                   *)
(***************************************************************************)
NoFile == [exists |-> FALSE, data |-> <<>>]

File(data) == [exists |-> TRUE, data |-> data]

VARIABLES
    keyFile,      \* ~/.sec.key
    vaultFile,    \* the secrets file (fileFlag)
    pc,           \* per invocation: where it is
    cmd,          \* its command and arguments
    key,          \* its variable key
    store,        \* its variable store
    attempts,     \* the loop variable i of requirePIN
    data,         \* the bytes saveStore is writing
    result,       \* how it ended: "ok" or the kind of its error
    out,          \* the lines get and list printed
    msg,          \* the status line printed
    hist,         \* history: the steps it has taken
    tries,        \* history: the outcome of each prompt of the current requirePIN
    fileAtStart,  \* history: the vault file when it started
    lockouts,     \* history: how many invocations ended with "too many
                  \* incorrect attempts" so far (MaxLockouts: that many or more)
    cipher        \* the inputs and results of encryptStore/decryptStore on their own

vars == <<keyFile, vaultFile, pc, cmd, key, store, attempts, data, result, out,
          msg, hist, tries, fileAtStart, lockouts, cipher>>

disk == <<keyFile, vaultFile>>

program == <<keyFile, vaultFile, pc, cmd, key, store, attempts, data, result, out,
             msg, hist, tries, fileAtStart, lockouts>>

CipherIdle == [step |-> "off"]

\* Before the first invocation: no vault file; no key file, or a key file of
\* the wrong length.
InitProgram ==
    /\ keyFile \in {NoFile} \cup {File(k) : k \in BadKeys}
    /\ vaultFile = NoFile
    /\ pc = [p \in Procs |-> "idle"]
    /\ cmd = [p \in Procs |-> NoCommand]
    /\ key = [p \in Procs |-> <<>>]
    /\ store = [p \in Procs |-> EmptyStore]
    /\ attempts = [p \in Procs |-> 0]
    /\ data = [p \in Procs |-> <<>>]
    /\ result = [p \in Procs |-> ""]
    /\ out = [p \in Procs |-> {}]
    /\ msg = [p \in Procs |-> ""]
    /\ hist = [p \in Procs |-> <<>>]
    /\ tries = [p \in Procs |-> <<>>]
    /\ fileAtStart = [p \in Procs |-> NoFile]
    /\ lockouts = 0

Init == InitProgram /\ cipher = CipherIdle

\* The invocation ends: with an error (log.Fatal, or the error PersistentPreRunE
\* returns to main) or with success.
Finish(p, res, line) ==
    /\ pc' = [pc EXCEPT ![p] = "done"]
    /\ result' = [result EXCEPT ![p] = res]
    /\ msg' = [msg EXCEPT ![p] = line]

Record(p, event) == hist' = [hist EXCEPT ![p] = Append(@, event)]

InPreRun(p) == pc[p] \in {"pre_key", "pre_load", "pre_pin"}

\* A command is given: cobra runs PersistentPreRunE, then the command's Run.
Start(p, c) ==
    /\ pc[p] = "idle"
    /\ pc' = [pc EXCEPT ![p] = "pre_key"]
    /\ cmd' = [cmd EXCEPT ![p] = c]
    /\ fileAtStart' = [fileAtStart EXCEPT ![p] = vaultFile]
    /\ UNCHANGED <<disk, key, store, attempts, data, result, out, msg, hist, tries, lockouts, cipher>>

\* Mutant: a key is made at every call.
KeyFileCase_AlwaysCreate(file) == "create"

\* Mutant: a key file of the wrong length is replaced by a new key.
KeyFileCase_Regenerate(file) ==
    IF file.exists /\ Len(file.data) = KeySize THEN "use" ELSE "create"

\* getOrCreateStaticKey on the key file read: a file of 32 bytes is the key
\* ("use"), a file of another length is an error ("invalid"), and when there
\* is no file a key is made ("create").
KeyFileCase(file) ==
    IF file.exists
    THEN IF Len(file.data) = KeySize THEN "use" ELSE "invalid"
    ELSE "create"

\* getOrCreateStaticKey, in PersistentPreRunE and again in Run; a key that
\* is made is random and is written to the key file.
getOrCreateStaticKey(p) ==
    /\ pc[p] \in {"pre_key", "run_key"}
    /\ LET case == KeyFileCase(keyFile) IN
       \/ /\ case = "use"
          /\ key' = [key EXCEPT ![p] = keyFile.data]
          /\ pc' = [pc EXCEPT ![p] = IF InPreRun(p) THEN "pre_load" ELSE "run_load"]
          /\ UNCHANGED <<keyFile, result, msg>>
       \/ /\ case = "invalid"
          /\ Finish(p, "ConfigurationError", "invalid key file length")
          /\ UNCHANGED <<keyFile, key>>
       \/ /\ case = "create"
          /\ \E k \in Keys :
                /\ keyFile' = File(k)
                /\ key' = [key EXCEPT ![p] = k]
          /\ pc' = [pc EXCEPT ![p] = IF InPreRun(p) THEN "pre_load" ELSE "run_load"]
          /\ UNCHANGED <<result, msg>>
    /\ Record(p, "key")
    /\ UNCHANGED <<vaultFile, cmd, store, attempts, data, out, tries, fileAtStart, lockouts, cipher>>

\* Mutant: a missing file is an error like any other error of ReadFile.
loadStore_MissingIsError(file, k) ==
    IF ~file.exists THEN Failed("IOError")
    ELSE decryptStore(file.data, k)

\* loadStore: what it returns for the file on disk.
loadStore(file, k) ==
    IF ~file.exists THEN [err |-> "", store |-> EmptyStore]
    ELSE decryptStore(file.data, k)

\* Mutant: PersistentPreRunE never calls requirePIN.
AfterPreLoad_NeverPrompt(st) == "run_key"

\* PersistentPreRunE after its load: "Only prompt for PIN if one is set".
AfterPreLoad(st) == IF pinKey \in DOMAIN st THEN "pre_pin" ELSE "run_key"

\* Run after its load: change-pin and remove-pin call requirePIN, which
\* returns at once when no PIN is set.
AfterRunLoad(c, st) ==
    IF c.op \in {"change-pin", "remove-pin"} /\ pinKey \in DOMAIN st
    THEN "run_pin" ELSE "run_op"

\* Mutant: an error of loadStore is dropped and the nil map is used.
Loaded_IgnoreError(p, r) ==
    /\ store' = [store EXCEPT ![p] = r.store]
    /\ pc' = [pc EXCEPT ![p] = IF InPreRun(p) THEN AfterPreLoad(r.store)
                               ELSE AfterRunLoad(cmd[p], r.store)]
    /\ attempts' = [attempts EXCEPT ![p] = 0]
    /\ tries' = [tries EXCEPT ![p] = <<>>]
    /\ UNCHANGED <<result, msg>>

\* What follows loadStore returning r: an error ends the invocation; else
\* the map is kept and requirePIN is called where the code calls it.
Loaded(p, r) ==
    IF r.err # ""
    THEN /\ Finish(p, r.err, "")
         /\ UNCHANGED <<store, attempts, tries>>
    ELSE /\ store' = [store EXCEPT ![p] = r.store]
         /\ pc' = [pc EXCEPT ![p] = IF InPreRun(p) THEN AfterPreLoad(r.store)
                                    ELSE AfterRunLoad(cmd[p], r.store)]
         /\ attempts' = [attempts EXCEPT ![p] = 0]
         /\ tries' = [tries EXCEPT ![p] = <<>>]
         /\ UNCHANGED <<result, msg>>

\* The load of PersistentPreRunE and of Run.
Load(p) ==
    /\ pc[p] \in {"pre_load", "run_load"}
    /\ Loaded(p, loadStore(vaultFile, key[p]))
    /\ Record(p, "load")
    /\ UNCHANGED <<disk, cmd, key, data, out, fileAtStart, lockouts, cipher>>

\* Mutant: once an invocation was locked out, every later prompt is refused.
PinTurn_LockedForGood(hash, pin, i) ==
    IF lockouts > 0 THEN "toomany"
    ELSE IF CompareHashAndPassword(hash, pin) THEN "ok"
    ELSE IF i + 1 < maxAttempts THEN "again"
    ELSE "toomany"

\* Mutant: the loop bound is off by one (i <= maxAttempts).
PinTurn_FourthAttempt(hash, pin, i) ==
    IF CompareHashAndPassword(hash, pin) THEN "ok"
    ELSE IF i + 1 <= maxAttempts THEN "again"
    ELSE "toomany"

\* Mutant: nil is returned after the loop.
PinTurn_PassAfterLoop(hash, pin, i) ==
    IF CompareHashAndPassword(hash, pin) THEN "ok"
    ELSE IF i + 1 < maxAttempts THEN "again"
    ELSE "ok"

\* One turn of the loop of requirePIN with the PIN typed, i the loop
\* variable: "ok" (return nil), "again" (next turn) or "toomany" (the loop
\* ends and the error is returned).
PinTurn(hash, pin, i) ==
    IF CompareHashAndPassword(hash, pin) THEN "ok"
    ELSE IF i + 1 < maxAttempts THEN "again"
    ELSE "toomany"

\* requirePIN returned nil: PersistentPreRunE returns nil and Run is called,
\* or Run goes on.
PinPassed(p) ==
    /\ pc' = [pc EXCEPT ![p] = IF InPreRun(p) THEN "run_key" ELSE "run_op"]
    /\ UNCHANGED <<result, msg>>

\* Mutant: the error of requirePIN is dropped and the command goes on.
PinFailed_Continue(p) == PinPassed(p)

\* requirePIN returned "too many incorrect attempts": PersistentPreRunE
\* returns it and main ends by log.Fatalf; Run ends by log.Fatalf.
PinFailed(p) == Finish(p, "TooManyAttemptsError", "too many incorrect attempts")

\* requirePIN at a prompt: the user types pin.  The history keeps whether
\* the PIN typed matched the stored hash.
requirePIN(p, pin) ==
    /\ pc[p] \in {"pre_pin", "run_pin"}
    /\ LET hash    == store[p][pinKey]
           turn    == PinTurn(hash, pin, attempts[p])
           matched == CompareHashAndPassword(hash, pin)
       IN
       /\ tries' = [tries EXCEPT ![p] = Append(@, matched)]
       /\ attempts' = [attempts EXCEPT ![p] = IF turn = "ok" THEN @ ELSE @ + 1]
       /\ IF turn = "ok"
          THEN PinPassed(p) /\ Record(p, IF matched THEN "verify" ELSE "pass")
          ELSE IF turn = "again"
          THEN UNCHANGED <<pc, result, msg, hist>>
          ELSE PinFailed(p) /\ Record(p, "toomany")
       /\ lockouts' = IF turn = "toomany" /\ lockouts < MaxLockouts
                      THEN lockouts + 1 ELSE lockouts
    /\ UNCHANGED <<disk, cmd, key, store, data, out, fileAtStart, cipher>>

\* Reading the terminal fails (promptPIN returns the error; "No input").
InputError(p) ==
    /\ pc[p] \in {"pre_pin", "run_pin", "new_pin"}
    /\ Finish(p, "IOError", "")
    /\ UNCHANGED <<disk, cmd, key, store, attempts, data, out, hist, tries, fileAtStart, lockouts, cipher>>

\* The operation of a command changed the map: saveStore follows.
Mutate(p, st) ==
    /\ store' = [store EXCEPT ![p] = st]
    /\ pc' = [pc EXCEPT ![p] = "save_enc"]
    /\ UNCHANGED <<disk, cmd, key, attempts, data, result, out, msg, hist, tries,
                   fileAtStart, lockouts, cipher>>

\* The operation printed lines and the command returns.
Output(p, lines) ==
    /\ out' = [out EXCEPT ![p] = lines]
    /\ Finish(p, "ok", "")
    /\ Record(p, "read")
    /\ UNCHANGED <<disk, cmd, key, store, attempts, data, tries, fileAtStart, lockouts, cipher>>

setCmd(p) ==
    /\ pc[p] = "run_op" /\ cmd[p].op = "set"
    /\ Mutate(p, StorePut(store[p], cmd[p].name, cmd[p].value))

getCmd(p) ==
    /\ pc[p] = "run_op" /\ cmd[p].op = "get"
    /\ Output(p, {StoreGet(store[p], cmd[p].name)})

deleteCmd(p) ==
    /\ pc[p] = "run_op" /\ cmd[p].op = "delete"
    /\ Mutate(p, StoreDelete(store[p], cmd[p].name))

\* Mutant: list prints every key of the map.
listCmd_All(p) ==
    /\ pc[p] = "run_op" /\ cmd[p].op = "list"
    /\ Output(p, DOMAIN store[p])

listCmd(p) ==
    /\ pc[p] = "run_op" /\ cmd[p].op = "list"
    /\ Output(p, {k \in DOMAIN store[p] : k # pinKey})

\* Mutant: set-pin does not look for a PIN already set.
setPinCmd_Overwrite(p) ==
    /\ pc[p] = "run_op" /\ cmd[p].op = "set-pin"
    /\ pc' = [pc EXCEPT ![p] = "new_pin"]
    /\ UNCHANGED <<disk, cmd, key, store, attempts, data, result, out, msg, hist, tries,
                   fileAtStart, lockouts, cipher>>

setPinCmd(p) ==
    /\ pc[p] = "run_op" /\ cmd[p].op = "set-pin"
    /\ IF pinKey \in DOMAIN store[p]
       THEN Finish(p, "ok", "PIN already set. Use change-pin or remove-pin instead.")
       ELSE /\ pc' = [pc EXCEPT ![p] = "new_pin"]
            /\ UNCHANGED <<result, msg>>
    /\ UNCHANGED <<disk, cmd, key, store, attempts, data, out, hist, tries, fileAtStart, lockouts, cipher>>

changePinCmd(p) ==
    /\ pc[p] = "run_op" /\ cmd[p].op = "change-pin"
    /\ pc' = [pc EXCEPT ![p] = "new_pin"]
    /\ UNCHANGED <<disk, cmd, key, store, attempts, data, result, out, msg, hist, tries,
                   fileAtStart, lockouts, cipher>>

removePinCmd(p) ==
    /\ pc[p] = "run_op" /\ cmd[p].op = "remove-pin"
    /\ Mutate(p, StoreDelete(store[p], pinKey))

\* "Enter new PIN: " of set-pin and change-pin: the PIN typed is hashed under
\* a random salt and stored under pinKey.
NewPin(p, pin, salt) ==
    /\ pc[p] = "new_pin"
    /\ Mutate(p, StorePut(store[p], pinKey, GenerateFromPassword(pin, salt)))

\* saveStore, first half: encryptStore under a random nonce.
SaveEncrypt(p, nonce) ==
    /\ pc[p] = "save_enc"
    /\ data' = [data EXCEPT ![p] = encryptStore(store[p], key[p], nonce)]
    /\ pc' = [pc EXCEPT ![p] = "save_open"]
    /\ UNCHANGED <<disk, cmd, key, store, attempts, result, out, msg, hist, tries,
                   fileAtStart, lockouts, cipher>>

\* ioutil.WriteFile opens the file with O_WRONLY|O_CREATE|O_TRUNC: the file
\* exists and is empty.
WriteFileOpen(p) ==
    /\ pc[p] = "save_open"
    /\ vaultFile' = File(<<>>)
    /\ pc' = [pc EXCEPT ![p] = "save_write"]
    /\ Record(p, "write")
    /\ UNCHANGED <<keyFile, cmd, key, store, attempts, data, result, out, msg, tries,
                   fileAtStart, lockouts, cipher>>

\* n bytes written at offset 0 of a file holding old.
WriteAt0(bytes, old) == bytes \o Drop(old, Len(bytes))

SuccessLine(c) ==
    CASE c.op = "set" -> "Secret set."
      [] c.op = "delete" -> "Secret deleted."
      [] c.op = "set-pin" -> "PIN set."
      [] c.op = "change-pin" -> "PIN changed."
      [] c.op = "remove-pin" -> "PIN removed."
      [] OTHER -> ""

\* ioutil.WriteFile writes the bytes and closes; the command returns.
WriteFileWrite(p) ==
    /\ pc[p] = "save_write"
    /\ vaultFile' = File(WriteAt0(data[p], vaultFile.data))
    /\ Finish(p, "ok", SuccessLine(cmd[p]))
    /\ UNCHANGED <<keyFile, cmd, key, store, attempts, data, out, hist, tries,
                   fileAtStart, lockouts, cipher>>

\* The write fails after n bytes (disk full, I/O error): saveStore returns
\* the error and the command ends by log.Fatal.
PartialLengths(d) == {0, NonceSizeX - 1, Len(d) - 1}

WriteFileFail(p, n) ==
    /\ pc[p] = "save_write"
    /\ vaultFile' = File(WriteAt0(Take(data[p], n), vaultFile.data))
    /\ Finish(p, "IOError", "")
    /\ UNCHANGED <<keyFile, cmd, key, store, attempts, data, out, hist, tries,
                   fileAtStart, lockouts, cipher>>

\* The process is gone; nothing of it is kept but the files.
Reset(p) ==
    /\ pc' = [pc EXCEPT ![p] = "idle"]
    /\ cmd' = [cmd EXCEPT ![p] = NoCommand]
    /\ key' = [key EXCEPT ![p] = <<>>]
    /\ store' = [store EXCEPT ![p] = EmptyStore]
    /\ attempts' = [attempts EXCEPT ![p] = 0]
    /\ data' = [data EXCEPT ![p] = <<>>]
    /\ result' = [result EXCEPT ![p] = ""]
    /\ out' = [out EXCEPT ![p] = {}]
    /\ msg' = [msg EXCEPT ![p] = ""]
    /\ hist' = [hist EXCEPT ![p] = <<>>]
    /\ tries' = [tries EXCEPT ![p] = <<>>]
    /\ fileAtStart' = [fileAtStart EXCEPT ![p] = NoFile]
    /\ UNCHANGED <<disk, lockouts, cipher>>

\* The process exits after main returned or log.Fatal was called.
Exit(p) == pc[p] = "done" /\ Reset(p)

\* The process is killed (or the machine stops) in the middle of a save.
Crash(p) == pc[p] \in {"save_open", "save_write"} /\ Reset(p)

Step(p) ==
    \/ \E c \in Commands : Start(p, c)
    \/ getOrCreateStaticKey(p)
    \/ Load(p)
    \/ \E pin \in Pins : requirePIN(p, pin)
    \/ InputError(p)
    \/ setCmd(p)
    \/ getCmd(p)
    \/ deleteCmd(p)
    \/ listCmd(p)
    \/ setPinCmd(p)
    \/ changePinCmd(p)
    \/ removePinCmd(p)
    \/ \E pin \in Pins, salt \in Salts : NewPin(p, pin, salt)
    \/ \E nonce \in Nonces : SaveEncrypt(p, nonce)
    \/ WriteFileOpen(p)
    \/ WriteFileWrite(p)
    \/ \E n \in PartialLengths(data[p]) : WriteFileFail(p, n)
    \/ Exit(p)
    \/ Crash(p)

\* One invocation at a time (command-at-a-time execution).
Next == Step(1)

Spec == Init /\ [][Next]_vars

(***************************************************************************)
(* encryptStore and decryptStore on their own: a map is encrypted, one     *)
(* byte of the result may be changed, and the bytes are decrypted.         *)
(***************************************************************************)
CipherNames == {<<97>>, <<255>>}

\* "x preceded by a quotation mark", and the byte 0xFF.
CipherValues == {<<34, 120>>, <<255>>}

CipherStores ==
    UNION {[S -> CipherValues] : S \in SUBSET CipherNames}

CipherKeys == {KeyA, KeyB}

\* The values a changed byte may take: a constant, the byte with a bit of
\* its plaintext flipped, the neighbouring byte.
TamperBytes(bytes, i) ==
    LET c == bytes[i] IN
    IF i <= NonceSizeX THEN {PlainByte(0), PlainByte(255)} \ {c}
    ELSE ({PlainByte(0), bytes[i - 1]}
          \cup (IF "x" \in DOMAIN c THEN {[c EXCEPT !.x = (c.x + 1) % 256]} ELSE {}))
         \ {c}

InitCipher ==
    /\ InitProgram
    /\ keyFile = NoFile
    /\ cipher \in [step : {"input"}, M : CipherStores, K : CipherKeys, N : Nonces,
                   bytes : {<<>>}, at : {0}, K2 : {<<>>}, res : {Failed("")}]

CipherEncrypt ==
    /\ cipher.step = "input"
    /\ cipher' = [cipher EXCEPT !.step = "sealed",
                                !.bytes = encryptStore(cipher.M, cipher.K, cipher.N)]
    /\ UNCHANGED program

CipherTamper(i, b) ==
    /\ cipher.step = "sealed" /\ cipher.at = 0
    /\ cipher' = [cipher EXCEPT !.bytes[i] = b, !.at = i]
    /\ UNCHANGED program

\* A changed text is decrypted under the key it was made with.
CipherDecrypt(k) ==
    /\ cipher.step = "sealed"
    /\ cipher.at # 0 => k = cipher.K
    /\ cipher' = [cipher EXCEPT !.step = "opened", !.K2 = k,
                                !.res = decryptStore(cipher.bytes, k)]
    /\ UNCHANGED program

NextCipher ==
    \/ CipherEncrypt
    \/ \E i \in 1..Len(cipher.bytes) : \E b \in TamperBytes(cipher.bytes, i) : CipherTamper(i, b)
    \/ \E k \in CipherKeys : CipherDecrypt(k)

SpecCipher == InitCipher /\ [][NextCipher]_vars

(***************************************************************************)
(* decryptStore on bytes that encryptStore did not make: a text is sealed  *)
(* (a map in JSON, or something else), the result may be cut short, and    *)
(* the bytes are decrypted.                                                *)
(***************************************************************************)
\* {}, {"a":"x"}, [], {"a":1}, {"a":"x" without its closing brace, nothing.
DecryptPlaintexts ==
    {Marshal(EmptyStore), Marshal(StorePut(EmptyStore, <<97>>, <<120>>)),
     <<91, 93>>, <<123, 34, 97, 34, 58, 49, 125>>,
     <<123, 34, 97, 34, 58, 34, 120, 34>>, <<>>}

\* The lengths a file is cut to: around the nonce, around the tag, one byte
\* short.
CutLengths(bytes) ==
    {0, 1, NonceSizeX - 1, NonceSizeX, NonceSizeX + 1, NonceSizeX + Overhead - 1,
     NonceSizeX + Overhead, Len(bytes) - 1} \cap (0..(Len(bytes) - 1))

InitDecrypt ==
    /\ InitProgram
    /\ keyFile = NoFile
    /\ cipher \in [step : {"plain"}, P : DecryptPlaintexts, K : CipherKeys, N : Nonces,
                   bytes : {<<>>}, cut : {-1}, K2 : {<<>>}, res : {Failed("")}]

DecryptSeal ==
    /\ cipher.step = "plain"
    /\ cipher' = [cipher EXCEPT !.step = "sealed",
                                !.bytes = AeadSeal(cipher.N, cipher.K, cipher.N, cipher.P)]
    /\ UNCHANGED program

DecryptCut(n) ==
    /\ cipher.step = "sealed" /\ cipher.cut = -1
    /\ cipher' = [cipher EXCEPT !.bytes = Take(cipher.bytes, n), !.cut = n]
    /\ UNCHANGED program

DecryptOpen(k) ==
    /\ cipher.step = "sealed"
    /\ cipher' = [cipher EXCEPT !.step = "decrypted", !.K2 = k,
                                !.res = decryptStore(cipher.bytes, k)]
    /\ UNCHANGED program

NextDecrypt ==
    \/ DecryptSeal
    \/ \E n \in CutLengths(cipher.bytes) : DecryptCut(n)
    \/ \E k \in CipherKeys : DecryptOpen(k)

SpecDecrypt == InitDecrypt /\ [][NextDecrypt]_vars

(***************************************************************************)
(* Two invocations at the same time on one vault path, each running one    *)
(* set or delete, after a first run has made the key file.  Their steps    *)
(* interleave freely: there is no lock.  The maps {"a":"x"}, {"a":""} and  *)
(* {} give vault files of three different lengths.                         *)
(***************************************************************************)
RaceCommands ==
    [op : {"set"}, name : {<<97>>}, value : {<<120>>, <<>>}]
    \cup [op : {"delete"}, name : {<<97>>}, value : {<<>>}]

InitRace ==
    /\ InitProgram
    /\ keyFile = NoFile
    /\ cipher = [step |-> "race"]

\* The first run: the key file is made.
RaceFirstRun ==
    /\ cipher.step = "race" /\ keyFile = NoFile
    /\ \E k \in Keys : keyFile' = File(k)
    /\ UNCHANGED <<vaultFile, pc, cmd, key, store, attempts, data, result, out, msg,
                   hist, tries, fileAtStart, lockouts, cipher>>

RaceStep(p) ==
    \/ \E c \in RaceCommands : keyFile.exists /\ Start(p, c)
    \/ getOrCreateStaticKey(p)
    \/ Load(p)
    \/ setCmd(p)
    \/ deleteCmd(p)
    \/ \E nonce \in Nonces : SaveEncrypt(p, nonce)
    \/ WriteFileOpen(p)
    \/ WriteFileWrite(p)

NextRace == RaceFirstRun \/ \E p \in Procs : RaceStep(p)

SpecRace == InitRace /\ [][NextRace]_vars

(***************************************************************************)
(* Two invocations at the same time on a vault that holds the secret a and *)
(* no PIN: each runs one of get a, set-pin, and set of the reserved name.  *)
(* A save of one may fall between the two loads of the other.              *)
(***************************************************************************)
GateCommands ==
    [op : {"get"}, name : {<<97>>}, value : {<<>>}]
    \cup [op : {"set"}, name : {pinKey}, value : {<<120>>}]
    \cup [op : {"set-pin"}, name : {<<>>}, value : {<<>>}]

InitGate ==
    /\ InitProgram
    /\ keyFile = NoFile
    /\ cipher = [step |-> "gate"]

\* What a first `set a x` leaves: the key file, and the vault {"a":"x"}.
GateFirstRun ==
    /\ cipher.step = "gate" /\ keyFile = NoFile
    /\ \E k \in Keys, nonce \in Nonces :
          /\ keyFile' = File(k)
          /\ vaultFile' = File(encryptStore(StorePut(EmptyStore, <<97>>, <<120>>), k, nonce))
    /\ UNCHANGED <<pc, cmd, key, store, attempts, data, result, out, msg,
                   hist, tries, fileAtStart, lockouts, cipher>>

GateStep(p) ==
    \/ \E c \in GateCommands : keyFile.exists /\ Start(p, c)
    \/ getOrCreateStaticKey(p)
    \/ Load(p)
    \/ \E pin \in Pins : requirePIN(p, pin)
    \/ getCmd(p)
    \/ setCmd(p)
    \/ setPinCmd(p)
    \/ \E pin \in Pins, salt \in Salts : NewPin(p, pin, salt)
    \/ \E nonce \in Nonces : SaveEncrypt(p, nonce)
    \/ WriteFileOpen(p)
    \/ WriteFileWrite(p)

NextGate == GateFirstRun \/ \E p \in Procs : GateStep(p)

SpecGate == InitGate /\ [][NextGate]_vars

(***************************************************************************)
(* Properties                                                              *)
(***************************************************************************)
\* What the next invocation would load from the files as they are.
Stored(file) ==
    IF keyFile.exists THEN loadStore(file, keyFile.data) ELSE Failed("ConfigurationError")

\* A PIN verifier is stored in the vault file.
HasPin(file) == Stored(file).err = "" /\ pinKey \in DOMAIN Stored(file).store

Events(p) == Range(hist[p])

IsOperation(e) == e \in {"read", "write"}

\* C1: for get, list, set and delete, a secret is printed or the vault file
\* is written only after the key was obtained, then the map loaded, and then,
\* when the vault holds a PIN verifier, a PIN that matches it was typed, all
\* in the same invocation.
C1_VerifyBeforeOperation ==
    \A p \in Procs : \A i \in 1..Len(hist[p]) :
        (cmd[p].op \in {"get", "list", "set", "delete"} /\ IsOperation(hist[p][i])) =>
            \E j \in 1..i, l \in 1..i :
                /\ j < l /\ hist[p][j] = "key" /\ hist[p][l] = "load"
                /\ HasPin(fileAtStart[p]) =>
                        \E m \in 1..i : l < m /\ hist[p][m] = "verify"

C1_Witness ==
    \E p \in Procs :
        /\ cmd[p].op = "get" /\ "read" \in Events(p)
        /\ HasPin(fileAtStart[p]) /\ out[p] = {<<120>>}

\* C2: one call of requirePIN prompts at most 3 times; every prompt before
\* its last was a mismatch; it returns nil exactly at a match, or with no
\* prompt when no verifier is stored; it returns "too many incorrect
\* attempts" after exactly 3 mismatches.
C2_ThreeAttempts ==
    \A p \in Procs :
        LET n == Len(tries[p])
            returned == \/ pc[p] = "run_key"
                        \/ pc[p] = "run_op" /\ cmd[p].op \in {"change-pin", "remove-pin"}
        IN  /\ n <= 3
            /\ \A i \in 1..(n - 1) : ~tries[p][i]
            /\ pc[p] \in {"pre_pin", "run_pin"} => n < 3 /\ (n > 0 => ~tries[p][n])
            /\ returned /\ pinKey \in DOMAIN store[p] => n >= 1 /\ tries[p][n]
            /\ returned /\ pinKey \notin DOMAIN store[p] => n = 0
            /\ "toomany" \in Events(p) =>
                    /\ tries[p] = <<FALSE, FALSE, FALSE>>
                    /\ result[p] = "TooManyAttemptsError"

C2_Witness ==
    \E p \in Procs : pc[p] = "run_key" /\ tries[p] = <<FALSE, FALSE, TRUE>>

\* The verifier stored in a vault file, as a sequence of at most one hash.
Verifier(file, kf) ==
    LET r == IF kf.exists THEN loadStore(file, kf.data) ELSE Failed("ConfigurationError")
    IN  IF r.err = "" /\ pinKey \in DOMAIN r.store THEN <<r.store[pinKey]>> ELSE <<>>

\* C3: once a verifier is stored in the vault, a step replaces or removes it
\* only when it is a write of an invocation in which a matching PIN was typed.
C3_NoBypass ==
    [][(Verifier(vaultFile, keyFile) # <<>>
         /\ Verifier(vaultFile', keyFile') # Verifier(vaultFile, keyFile))
        => \E p \in Procs : /\ pc[p] \in {"save_open", "save_write"}
                            /\ "verify" \in Events(p)]_vars

C3_Witness ==
    \E p \in Procs :
        /\ cmd[p].op = "remove-pin" /\ result[p] = "ok"
        /\ HasPin(fileAtStart[p]) /\ ~HasPin(vaultFile)
        /\ "verify" \in Events(p)

\* C4: while an invocation runs and after it ended, the vault file is the
\* complete file it found or the complete file it saves.
C4_AtomicSave ==
    \A p \in Procs :
        pc[p] # "idle" => vaultFile \in {fileAtStart[p], File(data[p])}

\* C5: when requirePIN ended with "too many incorrect attempts", the
\* invocation ends with that error, has printed no secret and written no
\* file, and the vault file is the one it found.
C5_LockedOut ==
    \A p \in Procs :
        "toomany" \in Events(p) =>
            /\ pc[p] = "done" /\ result[p] = "TooManyAttemptsError"
            /\ \A i \in 1..Len(hist[p]) : ~IsOperation(hist[p][i])
            /\ out[p] = {}
            /\ vaultFile = fileAtStart[p]

C5_Witness ==
    \E p \in Procs :
        /\ cmd[p].op = "set" /\ result[p] = "TooManyAttemptsError"
        /\ vaultFile.exists

\* The key file exists and does not hold 32 bytes.
BadKeyFile == keyFile.exists /\ Len(keyFile.data) # KeySize

\* C6: while the key file has a length other than 32 bytes, every invocation
\* ends with ConfigurationError before it loads, prints or writes anything,
\* and no step changes the key file.
C6_BadKeyFile ==
    /\ [](BadKeyFile =>
            \A p \in Procs :
                /\ pc[p] \in {"idle", "pre_key", "done"}
                /\ pc[p] = "done" => result[p] = "ConfigurationError"
                /\ out[p] = {}
                /\ ~vaultFile.exists)
    /\ [][BadKeyFile => keyFile' = keyFile]_vars

C6_Witness ==
    \E p \in Procs :
        BadKeyFile /\ result[p] = "ConfigurationError" /\ cmd[p].op = "list"

\* What get(name) of the next invocation prints.
LaterGet(name) == StoreGet(Stored(vaultFile).store, name)

\* C7: when set(name, value) has succeeded, a later get(name) returns value
\* and every other name has the value it had; when delete(name) has
\* succeeded, a later get(name) finds nothing.
C7_Persistence ==
    \A p \in Procs :
        (pc[p] = "done" /\ result[p] = "ok" /\ cmd[p].op \in {"set", "delete"}) =>
            LET before == Stored(fileAtStart[p]).store
                after  == Stored(vaultFile)
            IN  /\ after.err = ""
                /\ cmd[p].op = "set" =>
                        /\ cmd[p].name \in DOMAIN after.store
                        /\ LaterGet(cmd[p].name) = cmd[p].value
                /\ cmd[p].op = "delete" => cmd[p].name \notin DOMAIN after.store
                /\ \A n \in DOMAIN before \ {cmd[p].name} :
                        n \in DOMAIN after.store /\ after.store[n] = before[n]

\* C8: decryptStore(encryptStore(M, K), K) succeeds and returns M.
C8_RoundTrip ==
    (cipher.step = "opened" /\ cipher.at = 0 /\ cipher.K2 = cipher.K) =>
        cipher.res.err = "" /\ cipher.res.store = cipher.M

\* C9: when one byte of encryptStore(M, K) was changed, decryptStore under K
\* fails with the authentication error and returns no map.
C9_TamperDetected ==
    (cipher.step = "opened" /\ cipher.at # 0) =>
        cipher.res.err = "AuthenticationError" /\ cipher.res.store = EmptyStore

\* A byte of the nonce, of the ciphertext and of the tag.
C9_Witness ==
    /\ cipher.step = "opened" /\ cipher.K2 = cipher.K
    /\ cipher.at = Len(cipher.bytes) - Overhead
    /\ cipher.M # EmptyStore
    /\ cipher.res.err = "AuthenticationError"

\* C10: decryptStore(encryptStore(M, K1), K2) with K1 # K2 fails with the
\* authentication error and returns no map.
C10_WrongKey ==
    (cipher.step = "opened" /\ cipher.K2 # cipher.K) =>
        cipher.res.err = "AuthenticationError" /\ cipher.res.store = EmptyStore

C10_Witness ==
    /\ cipher.step = "opened" /\ cipher.K2 # cipher.K /\ cipher.at = 0
    /\ cipher.M # EmptyStore
    /\ cipher.res.err = "AuthenticationError"

\* C11: decryptStore fails with the format error for every input shorter
\* than the nonce and for an authentic text that json.Unmarshal refuses, and
\* with the authentication error for every other input whose tag does not
\* verify (wrong key, cut short); the two kinds are different errors.
C11_ErrorKinds ==
    cipher.step = "decrypted" =>
        LET short  == Len(cipher.bytes) < NonceSizeX
            intact == cipher.cut = -1 /\ cipher.K2 = cipher.K
            parses == Unmarshal(cipher.P).ok
        IN  /\ short => cipher.res.err = "FormatError"
            /\ ~short /\ ~intact => cipher.res.err = "AuthenticationError"
            /\ intact /\ ~parses => cipher.res.err = "FormatError"
            /\ intact /\ parses => cipher.res.err = ""
            /\ cipher.res.err # "" => cipher.res.store = EmptyStore

C11_Witness ==
    /\ cipher.step = "decrypted" /\ cipher.cut = NonceSizeX - 1
    /\ cipher.K2 = cipher.K
    /\ cipher.res.err = "FormatError"

\* C12: set-pin on a vault that holds a PIN verifier prints "PIN already
\* set. Use change-pin or remove-pin instead." and returns: it never asks for
\* a new PIN and never saves, and the vault file stays the file it found.
C12_PinAlreadySet ==
    \A p \in Procs :
        (cmd[p].op = "set-pin" /\ HasPin(fileAtStart[p])) =>
            /\ pc[p] \notin {"new_pin", "save_enc", "save_open", "save_write"}
            /\ vaultFile = fileAtStart[p]
            /\ (pc[p] = "done" /\ result[p] = "ok") =>
                    msg[p] = "PIN already set. Use change-pin or remove-pin instead."

C12_Witness ==
    \E p \in Procs :
        /\ cmd[p].op = "set-pin" /\ HasPin(vaultFile) /\ pc[p] = "done"
        /\ msg[p] = "PIN already set. Use change-pin or remove-pin instead."

\* C13: list prints exactly the names of the map in the vault file other
\* than the reserved name: never the reserved name, and every other name.
C13_ListExcludesPinKey ==
    \A p \in Procs :
        (cmd[p].op = "list" /\ pc[p] = "done" /\ result[p] = "ok") =>
            /\ pinKey \notin out[p]
            /\ out[p] = DOMAIN Stored(vaultFile).store \ {pinKey}

C13_Witness ==
    \E p \in Procs :
        /\ cmd[p].op = "list" /\ pc[p] = "done" /\ result[p] = "ok"
        /\ HasPin(vaultFile) /\ out[p] = {<<97>>}

\* C14: a load that finds no file at the vault path returns the empty map
\* and no error (the invocation goes on), and leaves the path without a file.
C14_FirstRun ==
    [][\A p \in Procs :
          (pc[p] \in {"pre_load", "run_load"} /\ ~vaultFile.exists /\ pc'[p] # pc[p]) =>
              /\ store'[p] = EmptyStore
              /\ pc'[p] \in {"run_key", "run_op"} /\ result'[p] = ""
              /\ vaultFile' = vaultFile]_vars

C14_Witness ==
    \E p \in Procs :
        /\ pc[p] = "run_op" /\ ~vaultFile.exists
        /\ hist[p] = <<"key", "load", "key", "load">>
        /\ store[p] = EmptyStore

\* C15: delete of a name that is not in the map ends without an error from
\* the map operation, and the map saved is the map found: every other name
\* and the PIN verifier keep their values.  This holds each time it is done.
C15_IdempotentDelete ==
    \A p \in Procs :
        (/\ cmd[p].op = "delete" /\ pc[p] = "done" /\ result[p] = "ok"
         /\ cmd[p].name \notin DOMAIN Stored(fileAtStart[p]).store) =>
            /\ Stored(vaultFile).err = ""
            /\ Stored(vaultFile).store = Stored(fileAtStart[p]).store
            /\ msg[p] = "Secret deleted."

C15_Witness ==
    \E p \in Procs :
        /\ cmd[p].op = "delete" /\ pc[p] = "done" /\ result[p] = "ok"
        /\ cmd[p].name = <<97>> /\ fileAtStart[p].exists
        /\ DOMAIN Stored(fileAtStart[p]).store = {pinKey}
        /\ Stored(vaultFile).store = Stored(fileAtStart[p]).store

\* The vault file an invocation found does not load under the key file.
LoadFails(p) ==
    /\ keyFile.exists /\ fileAtStart[p].exists
    /\ Stored(fileAtStart[p]).err \in {"FormatError", "AuthenticationError"}

\* C16: an invocation that finds a vault file that does not load ends at
\* that load with its error: it goes no further, saves nothing and prints
\* nothing, and the vault file stays the file it found.
C16_LoadFailureStops ==
    \A p \in Procs :
        (pc[p] # "idle" /\ LoadFails(p)) =>
            /\ pc[p] \in {"pre_key", "pre_load", "done"}
            /\ pc[p] = "done" => result[p] = Stored(fileAtStart[p]).err
            /\ "write" \notin Events(p) /\ out[p] = {}
            /\ vaultFile = fileAtStart[p]

C16_Witness ==
    \E p \in Procs :
        /\ cmd[p].op = "set" /\ pc[p] = "done" /\ LoadFails(p)
        /\ result[p] = "AuthenticationError"

\* The key file holds a key.
GoodKeyFile == keyFile.exists /\ Len(keyFile.data) = KeySize

\* C17: once the key file holds 32 bytes no step changes it; the key an
\* invocation works with is the content of the key file; and the vault file
\* a successful save leaves loads under the key file.
C17_KeyGeneratedOnce ==
    /\ [][GoodKeyFile => keyFile' = keyFile]_vars
    /\ [](\A p \in Procs : key[p] # <<>> => GoodKeyFile /\ key[p] = keyFile.data)
    /\ [](\A p \in Procs :
            (pc[p] = "done" /\ result[p] = "ok" /\ "write" \in Events(p)) =>
                Stored(vaultFile).err = "")

C17_Witness ==
    \E p \in Procs :
        /\ keyFile = File(KeyB) /\ key[p] = KeyB
        /\ fileAtStart[p].exists
        /\ cmd[p].op = "get" /\ pc[p] = "done" /\ out[p] = {<<120>>}

\* What get prints, and how it ends, for a name stored with the empty
\* string as its value.
EmptyValueOutcome(name) ==
    [out |-> {StoreGet(StorePut(EmptyStore, name, <<>>), name)}, result |-> "ok", msg |-> ""]

\* C18: get of a name that is not in the map ends differently (in what it
\* prints or in how it ends) from get of a name stored with the empty string.
C18_AbsentDistinct ==
    \A p \in Procs :
        (/\ cmd[p].op = "get" /\ pc[p] = "done" /\ result[p] = "ok"
         /\ cmd[p].name \notin DOMAIN Stored(vaultFile).store) =>
            [out |-> out[p], result |-> result[p], msg |-> msg[p]]
                # EmptyValueOutcome(cmd[p].name)

\* C19: when set or delete has succeeded, for any name given, the verifier
\* in the vault file is the one the invocation found (or none, as before).
C19_SecretOpsKeepVerifier ==
    \A p \in Procs :
        (cmd[p].op \in {"set", "delete"} /\ pc[p] = "done" /\ result[p] = "ok") =>
            Verifier(vaultFile, keyFile) = Verifier(fileAtStart[p], keyFile)

\* An invocation has saved and ended.
Saved(p) == pc[p] = "done" /\ result[p] = "ok" /\ "write" \in Events(p)

\* C20: when two invocations have both saved, the vault file is the
\* complete file one of them wrote, never a mixture of the two.
C20_LastWriterWins ==
    (Saved(1) /\ Saved(2)) => vaultFile \in {File(data[1]), File(data[2])}

\* C21: when the map that the body of get, list, set or delete has loaded
\* (and is about to work on) holds a PIN verifier, a PIN that matches a
\* stored verifier was typed earlier in that invocation.
C21_BodyMapVerified ==
    \A p \in Procs :
        (/\ pc[p] = "run_op" /\ cmd[p].op \in {"get", "list", "set", "delete"}
         /\ pinKey \in DOMAIN store[p]) =>
            "verify" \in Events(p)

\* C22: the count of wrong PINs is kept in the invocation only.  At every
\* prompt, however many invocations were locked out before: the count is the
\* number of prompts of this call and is below 3; a PIN that matches is
\* accepted; a wrong PIN before the third is followed by another prompt and
\* the third ends the invocation with "too many incorrect attempts"; and the
\* step writes neither the vault file nor the key file.
C22_CounterNotPersisted ==
    /\ [][\A p \in Procs :
            (pc[p] \in {"pre_pin", "run_pin"} /\ Len(tries'[p]) = Len(tries[p]) + 1) =>
                LET n       == Len(tries[p])
                    matched == tries'[p][n + 1]
                IN  /\ matched => pc'[p] \in {"run_key", "run_op"}
                    /\ (~matched /\ n + 1 < maxAttempts) => pc'[p] = pc[p]
                    /\ (~matched /\ n + 1 = maxAttempts) =>
                            result'[p] = "TooManyAttemptsError"
                    /\ disk' = disk]_vars
    /\ [](\A p \in Procs :
            pc[p] \in {"pre_pin", "run_pin"} =>
                attempts[p] = Len(tries[p]) /\ attempts[p] < maxAttempts)

\* After an invocation was locked out, a later one is let in at its third
\* prompt.
C22_Witness ==
    \E p \in Procs :
        /\ lockouts = MaxLockouts
        /\ pc[p] = "run_key" /\ tries[p] = <<FALSE, FALSE, TRUE>>
        /\ HasPin(vaultFile)

=============================================================================
